---- MODULE Spec2Model ----
(***************************************************************************)
(* Model of GenDBScraper/PseudomonasDotComScraper.py: the query setter,    *)
(* connect(), run_query() and the module-level helpers.                    *)
(*                                                                         *)
(* Representation of Python values:                                        *)
(*   - a str is a sequence of characters (one-character TLA+ strings);     *)
(*     fixed literals of the source that are never inspected character by  *)
(*     character appear as a single token of such a sequence;              *)
(*   - a field value is a pair <<type, payload>>: None, StrV(s), IntV;     *)
(*   - a pdc_query is a record with the fields strain, feature, organism;  *)
(*   - a query argument is a record [kind, items]: kind is the Python type *)
(*     of the argument, items maps the keys (fields) it carries to values; *)
(*   - a raised exception is the string "Type: message start", "" if none. *)
(* run_query() blocks in three GETs; the model has one action per code     *)
(* segment between two GETs and pc holds the position of the call.         *)
(***************************************************************************)
EXTENDS Integers, Sequences, FiniteSets, TLC

\* longest search-result page (number of hyperlinks) the site answers with
MaxLinks == 2

-----------------------------------------------------------------------------
(* Python values *)

None == <<"NoneType", <<>>>>
StrV(s) == <<"str", s>>
IntV == <<"int", <<"7">>>>

IsStr(v) == v[1] = "str"

\* str.upper() / str.lower() on the characters the model uses; every other
\* token (digits, punctuation) is left alone, as in Python.
UpperChar(c) ==
  CASE c = "a" -> "A" [] c = "b" -> "B" [] c = "h" -> "H" [] c = "t" -> "T"
    [] c = "m" -> "M" [] c = "l" -> "L" [] c = "s" -> "S" [] c = "w" -> "W"
    [] c = "o" -> "O" [] c = "text/" -> "TEXT/"
    [] OTHER -> c

LowerChar(c) ==
  CASE c = "A" -> "a" [] c = "B" -> "b" [] c = "H" -> "h" [] c = "T" -> "t"
    [] c = "M" -> "m" [] c = "L" -> "l" [] c = "S" -> "s" [] c = "W" -> "w"
    [] c = "O" -> "o" [] c = "TEXT/" -> "text/"
    [] OTHER -> c

upper(s) == [i \in 1..Len(s) |-> UpperChar(s[i])]
lower(s) == [i \in 1..Len(s) |-> LowerChar(s[i])]

\* str.find(sub): lowest 0-based index where sub occurs in s, -1 if none.
find(s, sub) ==
  LET hits == {i \in 1..(Len(s) - Len(sub) + 1) :
                 SubSeq(s, i, i + Len(sub) - 1) = sub}
  IN  IF hits = {} THEN -1
      ELSE (CHOOSE i \in hits : \A j \in hits : i <= j) - 1

\* re.compile(pattern).search(text) for a pattern without metacharacters,
\* or with a single leading "^" (token "^"): a substring, resp. prefix, test.
re_search(pattern, text) ==
  IF Len(pattern) > 0 /\ pattern[1] = "^"
  THEN LET p == Tail(pattern)
       IN  Len(text) >= Len(p) /\ SubSeq(text, 1, Len(p)) = p
  ELSE find(text, pattern) > -1

-----------------------------------------------------------------------------
(* The query data structure *)

FieldNames == {"strain", "feature", "organism"}

\* pdc_query(strain, feature, organism)
pdc_query(s, f, o) == [strain |-> s, feature |-> f, organism |-> o]

\* pdc_query(**items) for the fields given; the others take the default None
pdc_query_kw(items) ==
  pdc_query(IF "strain" \in DOMAIN items THEN items["strain"] ELSE None,
            IF "feature" \in DOMAIN items THEN items["feature"] ELSE None,
            IF "organism" \in DOMAIN items THEN items["organism"] ELSE None)

\* a conversion that passes the values on in the wrong positional order
dict_to_pdc_query_swapped(kwargs) ==
  pdc_query(kwargs["strain"], kwargs["organism"], kwargs["feature"])

_dict_to_pdc_query(kwargs) ==
  pdc_query(kwargs["strain"], kwargs["feature"], kwargs["organism"])

sbw25 == <<"s", "b", "w", "2", "5">>

NoExc == ""

\* the exceptions the module raises
TypeErrorQuery == "TypeError: The parameter 'query' must be a dict or pdc_query"
KeyErrorKeys == "KeyError: Only 'strain', 'feature', and 'organism' are acceptable keys"
KeyErrorCombination == "KeyError: Invalid combination of query keywords"
TypeErrorValues == "TypeError: All values in the query must be of type str"
RequestException == "RequestException"
KeyErrorHeader == "KeyError: 'content-type'"
CouldNotOpen == "RuntimeError: ERROR: Could not open"
AttributeErrorNone == "AttributeError: 'NoneType' object has no attribute 'find_next'"
ConnectionError == "ConnectionError: Connecting to {0:s} failed"
NotConnected == "RuntimeError: Not connected"
UnboundUrl == "UnboundLocalError: _url"
UnboundFeatureLink == "UnboundLocalError: feature_link"
IndexErrorNoLink == "IndexError: list index out of range"
TypeErrorHref == "TypeError: can only concatenate str"

\* the query setter: [exc |-> exception raised or NoExc, val |-> value stored]
RaiseQ(e) == [exc |-> e, val |-> pdc_query(None, None, None)]

\* a key check that only looks for the accepted keys being there
unknown_keys_lax(items) == \A k \in FieldNames : k \notin DOMAIN items

\* for k in present_keys: if not k in accepted_keys: raise KeyError
unknown_keys(items) == \E k \in DOMAIN items : k \notin FieldNames

\* a consistency check that tests the wrong pair of fields
inconsistent_wrong_field(val) == val.organism # None /\ val.feature # None

\* if val.organism is not None and val.strain is not None: raise KeyError
inconsistent(val) == val.organism # None /\ val.strain # None

\* for v in val[:]: if not (isinstance(v, str) or v is None): raise TypeError
bad_types(val) == \E k \in FieldNames : ~(IsStr(val[k]) \/ val[k] = None)

query_setter(arg) ==
  LET val1 == IF arg.kind = "NoneType"
              THEN [kind |-> "pdc_query", items |-> [k \in {"strain"} |-> StrV(sbw25)]]
              ELSE arg
  IN
  IF val1.kind \notin {"dict", "pdc_query"}
  THEN RaiseQ(TypeErrorQuery)
  ELSE IF val1.kind = "dict" /\ unknown_keys(val1.items)
  THEN RaiseQ(KeyErrorKeys)
  ELSE
    LET val == IF val1.kind = "dict"
               THEN _dict_to_pdc_query(
                      [k \in FieldNames |->
                         IF k \in DOMAIN val1.items THEN val1.items[k] ELSE None])
               ELSE pdc_query_kw(val1.items)
    IN
    IF inconsistent(val)
    THEN RaiseQ(KeyErrorCombination)
    ELSE IF bad_types(val)
    THEN RaiseQ(TypeErrorValues)
    ELSE [exc |-> NoExc, val |-> val]

-----------------------------------------------------------------------------
(* HTTP responses and pages *)

pdc_url == <<"https://www.pseudomonas.com">>

html == <<"h", "t", "m", "l">>

\* resp.headers['Content-Type'] is a KeyError when the header is missing
HasContentType(resp) == resp.headers # {}
ContentType(resp) == (CHOOSE h \in resp.headers : h[1] = "Content-Type")[2]

\* a check that accepts every 2xx status
is_good_response_2xx(resp) ==
  LET content_type == lower(ContentType(resp))
  IN  resp.status_code \in 200..299 /\ find(content_type, html) > -1

_is_good_response(resp) ==
  LET content_type == lower(ContentType(resp))
  IN  resp.status_code = 200 /\ find(content_type, html) > -1

\* requests.get + _simple_get: [exc |-> ..., content |-> resp.content]
EmptyPage == [links |-> <<>>, h3s |-> <<>>]

_simple_get(resp) ==
  IF resp.net_error
  THEN [exc |-> RequestException, content |-> EmptyPage]
  ELSE IF ~HasContentType(resp)
  THEN [exc |-> KeyErrorHeader, content |-> EmptyPage]
  ELSE IF _is_good_response(resp)
  THEN [exc |-> NoExc, content |-> resp.content]
  ELSE [exc |-> CouldNotOpen, content |-> EmptyPage]

-----------------------------------------------------------------------------
(* Table extraction *)

EmptyDF == <<"DataFrame", "empty">>
DataFrame(id) == <<"DataFrame", id>>
Unset == <<"unset", "">>

\* pandas.read_html(str(element), index_col=0)[0]: raises unless the element
\* holds a table (also for str(None), when nothing follows the heading).
read_html(elem) ==
  IF elem[1] = "table"
  THEN [exc |-> NoExc, df |-> DataFrame(elem[2])]
  ELSE [exc |-> "ValueError: No tables found", df |-> EmptyDF]

\* soup.find('h3', string=re.compile(table_heading)): index of the first h3
\* whose string the pattern matches, 0 for Python's None.
find_h3(soup, table_heading) ==
  LET hits == {i \in 1..Len(soup.h3s) : re_search(table_heading, soup.h3s[i].string)}
  IN  IF hits = {} THEN 0 ELSE CHOOSE i \in hits : \A j \in hits : i <= j

_pandasDF_from_heading(soup, table_heading) ==
  LET h == find_h3(soup, table_heading)
  IN  IF h = 0
      THEN [exc |-> AttributeErrorNone,
            df |-> EmptyDF]
      ELSE LET parsed == read_html(soup.h3s[h].next)
           IN  IF parsed.exc = NoExc
               THEN [exc |-> NoExc, df |-> parsed.df]
               ELSE [exc |-> NoExc, df |-> EmptyDF]

\* the section headings of run_query: the key in the result mapping and the
\* regular expression the heading is looked up with
H(key, pattern) == [key |-> key, pattern |-> pattern]

References == H("References", <<"^", "References">>)

FeatureHeadings ==
  << H("Gene Feature Overview", <<"Gene Feature Overview">>),
     H("Cross-References", <<"Cross-", "References">>),
     H("Product", <<"Product">>),
     H("Subcellular localization", <<"Subcellular localization">>),
     H("Pathogen Association Analysis", <<"Pathogen Association Analysis">>),
     H("Orthologs/Comparative Genomics", <<"Orthologs/Comparative Genomics">>),
     H("Interactions", <<"Interactions">>) >>

FunctionHeadings ==
  << H("Gene Ontology", <<"Gene Ontology">>),
     H("Functional Classifications Manually Assigned by PseudoCAP",
       <<"Functional Classifications Manually Assigned by PseudoCAP">>),
     H("Functional Predictions from Interpro",
       <<"Functional Predictions from Interpro">>) >>

Keys(hs) == {hs[i].key : i \in 1..Len(hs)}
PanelKeys == Keys(FeatureHeadings) \cup {References.key} \cup Keys(FunctionHeadings)

NoPanels == [k \in PanelKeys |-> Unset]

\* the first loop of run_query: each heading, and "References" again after it
FeatureLoop ==
  [i \in 1..(2 * Len(FeatureHeadings)) |->
     IF i % 2 = 1 THEN FeatureHeadings[(i + 1) \div 2] ELSE References]

\* panels[key] = _pandasDF_from_heading(browser, pattern) for the headings of
\* hs in order; the first exception ends the loop.
RECURSIVE fill_panels(_, _, _)
fill_panels(soup, hs, panels) ==
  IF hs = <<>>
  THEN [exc |-> NoExc, panels |-> panels]
  ELSE LET r == _pandasDF_from_heading(soup, Head(hs).pattern)
       IN  IF r.exc # NoExc
           THEN [exc |-> r.exc, panels |-> panels]
           ELSE fill_panels(soup, Tail(hs),
                            [panels EXCEPT ![Head(hs).key] = r.df])

-----------------------------------------------------------------------------
(* Inputs: query arguments *)

ab == <<"a", "b">>
AB == <<"A", "B">>

StrainVals == {None, StrV(sbw25), IntV}
FeatureVals == {None, StrV(<<>>), StrV(ab), StrV(AB)}
OrganismVals == {None, StrV(<<"o">>)}

ValsOf(k) ==
  CASE k = "strain" -> StrainVals
    [] k = "feature" -> FeatureVals
    [] k = "organism" -> OrganismVals

\* one str value for each key, also for a key that is not a field
SampleOf(k) ==
  CASE k = "strain" -> StrV(sbw25)
    [] k = "feature" -> StrV(ab)
    [] k = "organism" -> StrV(<<"o">>)
    [] OTHER -> StrV(ab)

\* all mappings from the key set ks to values of the keys
ItemsOver(ks) == {f \in [ks -> UNION {ValsOf(k) : k \in ks}] : \A k \in ks : f[k] \in ValsOf(k)}

Absent == [kind |-> "NoneType", items |-> [k \in {} |-> None]]
TripleArgs == {[kind |-> "pdc_query", items |-> f] : f \in ItemsOver(FieldNames)}
\* mappings over the accepted keys with every value, and mappings with the
\* key "gene" next to any of the accepted keys
DictArgs ==
  {[kind |-> "dict", items |-> f] :
     f \in UNION {ItemsOver(ks) : ks \in SUBSET FieldNames}}
    \cup {[kind |-> "dict", items |-> [k \in ks \cup {"gene"} |-> SampleOf(k)]] :
            ks \in SUBSET FieldNames}
OtherArgs == {[kind |-> "str", items |-> [k \in {} |-> None]]}

QueryArgs == {Absent} \cup TripleArgs \cup DictArgs \cup OtherArgs

-----------------------------------------------------------------------------
(* Inputs: what the site answers *)

Href(id) == StrV(<<"/feature/show/?id=", id>>)
Link(string, href) == [string |-> string, href |-> href]

Links ==
  { Link(StrV(AB), Href("1")),
    Link(StrV(ab), Href("2")),
    Link(StrV(<<"A", "B", "1">>), Href("3")),
    Link(StrV(AB), None) }

RECURSIVE SeqsUpTo(_, _)
SeqsUpTo(S, n) ==
  IF n = 0 THEN {<<>>}
  ELSE LET shorter == SeqsUpTo(S, n - 1)
       IN  shorter \cup {Append(q, x) : q \in shorter, x \in S}

SearchPages == {[links |-> l, h3s |-> <<>>] : l \in SeqsUpTo(Links, MaxLinks)}

\* a page that shows every heading of hs (in page order), each followed by
\* its table
Section(text, next) == [string |-> text, next |-> next]
Table(id) == <<"table", id>>
Paragraph == <<"p", "">>

PageOf(hs) ==
  [links |-> <<>>,
   h3s |-> [i \in 1..Len(hs) |->
              Section(IF hs[i].pattern[1] = "^" THEN Tail(hs[i].pattern)
                      ELSE hs[i].pattern,
                      Table(hs[i].key))]]

Without(page, i) ==
  [page EXCEPT !.h3s = SubSeq(page.h3s, 1, i - 1) \o SubSeq(page.h3s, i + 1, Len(page.h3s))]
NoTable(page, i) == [page EXCEPT !.h3s[i].next = Paragraph]

\* the page, the page lacking any one heading, the page with no table after
\* its first or its last heading, and the empty page
Variants(page) ==
  {page, EmptyPage}
    \cup {Without(page, i) : i \in 1..Len(page.h3s)}
    \cup {NoTable(page, i) : i \in {1, Len(page.h3s)}}

FeaturePages == Variants(PageOf(FeatureHeadings \o <<References>>))
FunctionPages == Variants(PageOf(FunctionHeadings))

Header(v) == {<<"Content-Type", v>>}
HeaderSets ==
  { {}, Header(<<"text/">> \o html), Header(upper(<<"text/">> \o html)),
    Header(<<"application/json">>) }
StatusCodes == {200, 201, 404}

Response(n, sc, hd, c) ==
  [net_error |-> n, status_code |-> sc, headers |-> hd, content |-> c]
NoResp == Response(FALSE, 0, {}, EmptyPage)
NetworkFailure == Response(TRUE, 0, {}, EmptyPage)

\* every status and header set with an empty body, and the pages of contents
\* served as 200 text/html
Responses(contents) ==
  {NetworkFailure}
    \cup {Response(FALSE, sc, hd, EmptyPage) : sc \in StatusCodes, hd \in HeaderSets}
    \cup {Response(FALSE, 200, Header(<<"text/">> \o html), c) : c \in contents}

-----------------------------------------------------------------------------
(* State *)

VARIABLES
  query,         \* self.__query
  connected,     \* self.__connected
  browser,       \* self.__browser: [parsed, content]
  pc,            \* position of the running run_query: idle, search, feature, functions
  feature_link,  \* local of run_query
  panels,        \* local of run_query
  call,          \* the last operation called and its argument
  preConnected,  \* self.__connected when that operation was called
  raised,        \* the exception it raised, NoExc if none (so far)
  result,        \* what it returned: [returned, panels]
  gets,          \* the URLs it has issued a GET for, in order
  answered,      \* how many of them have been answered
  resp           \* the last answer

vars == <<query, connected, browser, pc, feature_link, panels, call,
          preConnected, raised, result, gets, answered, resp>>

NoBrowser == [parsed |-> FALSE, content |-> EmptyPage]
NoResult == [returned |-> FALSE, panels |-> NoPanels]
NoLink == <<>>

Call(op, arg) == [op |-> op, arg |-> arg]

\* a fresh call record: nothing raised, returned, fetched
Enter(op, arg) ==
  /\ call' = Call(op, arg)
  /\ preConnected' = connected
  /\ answered' = 0
  /\ resp' = NoResp

\* __init__(query=None)
Init ==
  /\ query = query_setter(Absent).val
  /\ connected = FALSE
  /\ browser = NoBrowser
  /\ pc = "idle"
  /\ feature_link = NoLink
  /\ panels = NoPanels
  /\ call = Call("__init__", Absent)
  /\ preConnected = FALSE
  /\ raised = NoExc
  /\ result = NoResult
  /\ gets = <<>>
  /\ answered = 0
  /\ resp = NoResp

\* scraper = PseudomonasDotComScraper(query=arg): when the setter raises, no
\* instance is made and the caller keeps the one it had
Construct(arg) ==
  /\ pc = "idle"
  /\ Enter("__init__", arg)
  /\ LET s == query_setter(arg)
     IN  /\ raised' = s.exc
         /\ IF s.exc = NoExc
            THEN /\ query' = s.val
                 /\ connected' = FALSE
                 /\ browser' = NoBrowser
            ELSE UNCHANGED <<query, connected, browser>>
  /\ result' = NoResult
  /\ gets' = <<>>
  /\ UNCHANGED <<pc, feature_link, panels>>

\* scraper.query = arg
SetQuery(arg) ==
  /\ pc = "idle"
  /\ Enter("query", arg)
  /\ LET s == query_setter(arg)
     IN  /\ raised' = s.exc
         /\ query' = IF s.exc = NoExc THEN s.val ELSE query
  /\ result' = NoResult
  /\ gets' = <<>>
  /\ UNCHANGED <<connected, browser, pc, feature_link, panels>>

\* a handler that leaves the flag as it was
connected_kept(c) == c

\* self.__connected in the except branch of connect()
connected_on_failure(c) == FALSE

\* scraper.connect(), the site answering r
connect(r) ==
  /\ pc = "idle"
  /\ call' = Call("connect", Absent)
  /\ preConnected' = connected
  /\ gets' = <<pdc_url>>
  /\ answered' = 1
  /\ resp' = r
  /\ LET g == _simple_get(r)
     IN  IF g.exc # NoExc
         THEN /\ connected' = connected_on_failure(connected)
              /\ raised' = ConnectionError
              /\ UNCHANGED browser
         ELSE /\ browser' = [parsed |-> TRUE, content |-> g.content]
              /\ connected' = TRUE
              /\ raised' = NoExc
  /\ result' = NoResult
  /\ UNCHANGED <<query, pc, feature_link, panels>>

-----------------------------------------------------------------------------
(* run_query *)

\* _feature = self.query.feature, '' when that is None
FeatureOf(q) == IF q.feature = None THEN <<>> ELSE q.feature[2]

\* the search URL; neither branch assigns _url when strain and organism are
\* both None
HasUrl(q) == q.strain # None \/ q.organism # None

SearchUrl(q) ==
  IF q.strain # None
  THEN pdc_url \o <<"/primarySequenceFeature/list?c1=name&v1=">> \o FeatureOf(q)
         \o <<"&e1=1&term1=">> \o q.strain[2] \o <<"&assembly=complete">>
  ELSE pdc_url \o <<"/primarySequenceFeature/list?c1=name&v1=">> \o FeatureOf(q)
         \o <<"&e1=1&term2=">> \o q.organism[2] \o <<"&assembly=complete">>

\* browser.find_all('a', string=re.compile(_feature.upper())): the indices of
\* the matching links, in page order
find_all_a(soup, _feature) ==
  {i \in 1..Len(soup.links) :
     /\ IsStr(soup.links[i].string)
     /\ re_search(upper(_feature), soup.links[i].string[2])}

\* a functions URL that lacks the view parameter
FunctionUrlPlain(link) == link

\* function_url = feature_link + "&view=functions"
FunctionUrl(link) == link \o <<"&view=functions">>

\* a run_query that does not look at the connection state
bail_out_never(c) == FALSE

\* if not self.__connected: raise RuntimeError
bail_out(c) == ~c

\* a feature test that also searches for the empty term
unique_feature_always(_feature) == TRUE

\* if _feature is not '': CPython keeps a single empty str object, so the
\* identity test is a test for the empty string
unique_feature(_feature) == _feature # <<>>

\* the call ends with exception e: its locals are gone
Fail(e) ==
  /\ raised' = e
  /\ pc' = "idle"
  /\ feature_link' = NoLink
  /\ panels' = NoPanels
  /\ result' = NoResult

\* run_query(query=arg) up to its first GET
run_query(arg) ==
  /\ pc = "idle"
  /\ Enter("run_query", arg)
  /\ UNCHANGED <<connected, browser>>
  /\ IF bail_out(connected)
     THEN /\ Fail(NotConnected)
          /\ gets' = <<>>
          /\ UNCHANGED query
     ELSE LET s == IF arg.kind # "NoneType" THEN query_setter(arg)
                   ELSE [exc |-> NoExc, val |-> query]
          IN  IF s.exc # NoExc
              THEN /\ Fail(s.exc)
                   /\ gets' = <<>>
                   /\ UNCHANGED query
              ELSE /\ query' = s.val
                   /\ IF ~HasUrl(s.val)
                      THEN /\ Fail(UnboundUrl)
                           /\ gets' = <<>>
                      ELSE /\ gets' = <<SearchUrl(s.val)>>
                           /\ pc' = "search"
                           /\ raised' = NoExc
                           /\ result' = NoResult
                           /\ UNCHANGED <<feature_link, panels>>

\* the search page arrives: resolve the link of the feature, GET it
search_answer(r) ==
  /\ pc = "search"
  /\ answered' = answered + 1
  /\ resp' = r
  /\ UNCHANGED <<query, connected, browser, call, preConnected>>
  /\ LET g == _simple_get(r)
         _feature == FeatureOf(query)
         found == find_all_a(g.content, _feature)
         first == CHOOSE i \in found : \A j \in found : i <= j
     IN  IF g.exc # NoExc
         THEN Fail(g.exc) /\ UNCHANGED gets
         ELSE IF ~unique_feature(_feature)
         THEN Fail(UnboundFeatureLink) /\ UNCHANGED gets
         ELSE IF found = {}
         THEN Fail(IndexErrorNoLink) /\ UNCHANGED gets
         ELSE IF ~IsStr(g.content.links[first].href)
         THEN Fail(TypeErrorHref) /\ UNCHANGED gets
         ELSE /\ feature_link' = pdc_url \o g.content.links[first].href[2]
              /\ gets' = Append(gets, feature_link')
              /\ pc' = "feature"
              /\ UNCHANGED <<panels, raised, result>>

\* the feature page arrives: extract its sections, GET the functions view
feature_answer(r) ==
  /\ pc = "feature"
  /\ answered' = answered + 1
  /\ resp' = r
  /\ UNCHANGED <<query, connected, browser, call, preConnected>>
  /\ LET g == _simple_get(r)
         filled == fill_panels(g.content, FeatureLoop, NoPanels)
     IN  IF g.exc # NoExc
         THEN Fail(g.exc) /\ UNCHANGED gets
         ELSE IF filled.exc # NoExc
         THEN Fail(filled.exc) /\ UNCHANGED gets
         ELSE /\ panels' = filled.panels
              /\ gets' = Append(gets, FunctionUrl(feature_link))
              /\ pc' = "functions"
              /\ UNCHANGED <<feature_link, raised, result>>

\* the functions view arrives: extract its sections, return the mapping
functions_answer(r) ==
  /\ pc = "functions"
  /\ answered' = answered + 1
  /\ resp' = r
  /\ UNCHANGED <<query, connected, browser, call, preConnected, gets>>
  /\ LET g == _simple_get(r)
         filled == fill_panels(g.content, FunctionHeadings, panels)
     IN  IF g.exc # NoExc
         THEN Fail(g.exc)
         ELSE IF filled.exc # NoExc
         THEN Fail(filled.exc)
         ELSE /\ result' = [returned |-> TRUE, panels |-> filled.panels]
              /\ raised' = NoExc
              /\ pc' = "idle"
              /\ feature_link' = NoLink
              /\ panels' = NoPanels

-----------------------------------------------------------------------------

Next ==
  \/ \E arg \in QueryArgs : Construct(arg)
  \/ \E arg \in QueryArgs : SetQuery(arg)
  \/ \E r \in Responses({EmptyPage}) : connect(r)
  \/ \E arg \in QueryArgs : run_query(arg)
  \/ \E r \in Responses(SearchPages) : search_answer(r)
  \/ \E r \in Responses(FeaturePages) : feature_answer(r)
  \/ \E r \in Responses(FunctionPages) : functions_answer(r)

Spec == Init /\ [][Next]_vars

TypeOK ==
  /\ connected \in BOOLEAN
  /\ pc \in {"idle", "search", "feature", "functions"}
  /\ answered \in 0..3

-----------------------------------------------------------------------------
(* Vocabulary of the properties *)

\* field k of a query argument is set (present and not None)
IsSet(arg, k) == k \in DOMAIN arg.items /\ arg.items[k] # None
BothSet(arg) == IsSet(arg, "strain") /\ IsSet(arg, "organism")
FieldOf(arg, k) == IF k \in DOMAIN arg.items THEN arg.items[k] ELSE None
HasUnknownKey(arg) == arg.kind = "dict" /\ ~(DOMAIN arg.items \subseteq FieldNames)

ValidArg(arg) ==
  /\ arg.kind \in {"dict", "pdc_query"}
  /\ DOMAIN arg.items \subseteq FieldNames
  /\ ~BothSet(arg)
  /\ \A k \in DOMAIN arg.items : arg.items[k] = None \/ arg.items[k][1] = "str"

InvalidArgument == {TypeErrorQuery, KeyErrorKeys, KeyErrorCombination, TypeErrorValues}

\* the last operation handed its argument to the query setter
SetsQuery ==
  \/ call.op \in {"__init__", "query"}
  \/ call.op = "run_query" /\ preConnected /\ call.arg # Absent

\* an answer with an HTML content type
IsHtml(r) ==
  \E h \in r.headers : h[1] = "Content-Type" /\ find(lower(h[2]), html) > -1

\* heading h is on no h3 of the page
HeadingAbsent(page, h) ==
  \A i \in 1..Len(page.h3s) : ~re_search(h.pattern, page.h3s[i].string)

\* the links of the page whose text matches the term, letter case ignored
MatchingLinks(page, term) ==
  {i \in 1..Len(page.links) :
     /\ page.links[i].string[1] = "str"
     /\ find(lower(page.links[i].string[2]), lower(term)) > -1}

-----------------------------------------------------------------------------
(* Properties *)

\* C1: while the connection state is false, run_query fails with the
\* not-connected error whatever its argument, leaves the stored query as it
\* was and issues no GET.
C1_NotConnectedRejected ==
  [][(pc = "idle" /\ ~connected /\ call'.op = "run_query")
       => /\ raised' = NotConnected
          /\ query' = query
          /\ gets' = <<>>
          /\ answered' = 0
          /\ pc' = "idle"
          /\ ~result'.returned]_vars

C1_Witness ==
  /\ call.op = "run_query"
  /\ ~preConnected
  /\ BothSet(call.arg)
  /\ raised = NotConnected

\* C2: a connect() that gets a network failure, a status other than 200 or a
\* non-HTML answer ends with the connection state false and a connection
\* error, whatever the state was before, and a run_query that follows it is
\* rejected as not connected.
C2_FailedConnectResets ==
  /\ []((call.op = "connect"
           /\ (resp.net_error \/ resp.status_code # 200 \/ ~IsHtml(resp)))
          => (~connected /\ raised = ConnectionError))
  /\ [][(call.op = "connect" /\ raised = ConnectionError /\ call'.op = "run_query")
          => (raised' = NotConnected /\ gets' = <<>>)]_vars

C2_Witness ==
  /\ call.op = "connect"
  /\ preConnected
  /\ resp.status_code = 404
  /\ ~connected
  /\ raised = ConnectionError

\* C3: a section heading that is absent from a fetched page gives an empty
\* table under that heading and run_query goes on: to the functions GET after
\* the feature page, to returning the mapping after the functions page.
C3_AbsentHeadingEmptyTable ==
  /\ (call.op = "run_query" /\ answered = 2 /\ _simple_get(resp).exc = NoExc)
       => /\ raised = NoExc
          /\ \A i \in 1..Len(FeatureLoop) :
               HeadingAbsent(resp.content, FeatureLoop[i])
                 => panels[FeatureLoop[i].key] = EmptyDF
  /\ (call.op = "run_query" /\ answered = 3 /\ _simple_get(resp).exc = NoExc)
       => /\ result.returned
          /\ \A i \in 1..Len(FunctionHeadings) :
               HeadingAbsent(resp.content, FunctionHeadings[i])
                 => result.panels[FunctionHeadings[i].key] = EmptyDF

\* C4: when the search page has exactly one link whose text matches the
\* feature term with letter case ignored, and the link has an href, run_query
\* fetches base URL + that href as the feature page.
C4_CaseInsensitiveLink ==
  (/\ call.op = "run_query"
   /\ answered = 1
   /\ _simple_get(resp).exc = NoExc
   /\ FeatureOf(query) # <<>>
   /\ Cardinality(MatchingLinks(resp.content, FeatureOf(query))) = 1
   /\ \A i \in MatchingLinks(resp.content, FeatureOf(query)) :
        resp.content.links[i].href # None)
    => \A i \in MatchingLinks(resp.content, FeatureOf(query)) :
         /\ Len(gets) = 2
         /\ gets[2] = pdc_url \o resp.content.links[i].href[2]

\* C5: the stored query never has strain and organism both set, and a triple
\* or mapping with both set is refused with a KeyError by the constructor, by
\* the attribute assignment and by run_query on a connected scraper, before
\* any GET.
C5_StrainXorOrganism ==
  /\ ~(query.strain # None /\ query.organism # None)
  /\ (SetsQuery /\ call.arg.kind \in {"dict", "pdc_query"} /\ BothSet(call.arg))
       => /\ raised \in {KeyErrorKeys, KeyErrorCombination}
          /\ gets = <<>>
          /\ pc = "idle"

C5_Witness ==
  /\ call.op = "run_query"
  /\ preConnected
  /\ call.arg.kind = "dict"
  /\ BothSet(call.arg)
  /\ DOMAIN call.arg.items \subseteq FieldNames
  /\ raised = KeyErrorCombination

\* C6: a mapping with a key outside strain, feature, organism is refused with
\* the KeyError of the key check, whatever else it holds, and the stored query
\* stays what it was.
C6_UnknownKeyRejected ==
  /\ []((SetsQuery /\ HasUnknownKey(call.arg))
          => (raised = KeyErrorKeys /\ gets = <<>> /\ pc = "idle"))
  /\ [][(/\ pc = "idle"
         /\ call'.op \in {"__init__", "query", "run_query"}
         /\ HasUnknownKey(call'.arg))
          => query' = query]_vars

C6_Witness ==
  /\ call.op = "query"
  /\ HasUnknownKey(call.arg)
  /\ BothSet(call.arg)
  /\ raised = KeyErrorKeys
  /\ query.feature # None

\* C7: a triple or mapping over the three fields, with at most one of strain
\* and organism set and every value a str or None, is accepted and the stored
\* query has exactly its field values, None for the keys it lacks; an absent
\* argument stores strain "sbw25" with feature and organism None.
C7_RoundTrip ==
  /\ (SetsQuery /\ ValidArg(call.arg))
       => /\ raised \notin InvalidArgument
          /\ call.op # "run_query" => raised = NoExc
          /\ \A k \in FieldNames : query[k] = FieldOf(call.arg, k)
  /\ (call.op \in {"__init__", "query"} /\ call.arg = Absent)
       => /\ raised = NoExc
          /\ query = [strain |-> StrV(sbw25), feature |-> None, organism |-> None]

C7_Witness ==
  /\ call.op = "query"
  /\ call.arg.kind = "dict"
  /\ DOMAIN call.arg.items = {"feature"}
  /\ raised = NoExc
  /\ query = [strain |-> None, feature |-> StrV(ab), organism |-> None]

\* C8 as stated: every answer from the site root with a 2xx status and an
\* HTML content type sets the connection state true.
C8_Any2xxConnects ==
  (/\ call.op = "connect"
   /\ ~resp.net_error
   /\ resp.status_code \in 200..299
   /\ IsHtml(resp))
    => connected

\* C8 amended: connect() sets the connection state true exactly for an answer
\* with status 200 and an HTML content type; every other answer, other 2xx
\* statuses included, leaves it false with a connection error.
C8_Only200Connects ==
  call.op = "connect"
    => /\ connected <=> (~resp.net_error /\ resp.status_code = 200 /\ IsHtml(resp))
       /\ connected => raised = NoExc
       /\ ~connected => raised = ConnectionError

C8_Witness ==
  /\ call.op = "connect"
  /\ resp.status_code = 201
  /\ IsHtml(resp)
  /\ ~connected
  /\ raised = ConnectionError

\* C9: the GETs of a run_query are, in this order, the search URL, the URL of
\* the feature page and that URL + "&view=functions"; every step of the call
\* takes one answer and issues at most one further GET; a call that returned
\* issued all three, and a call that failed issued none after the answer it
\* failed on.
C9_GetOrder ==
  /\ [](call.op = "run_query"
          => /\ Len(gets) <= 3
             /\ answered <= Len(gets)
             /\ Len(gets) <= answered + 1
             /\ Len(gets) >= 1 => gets[1] = SearchUrl(query)
             /\ Len(gets) >= 2 => (gets[2][1] = pdc_url[1] /\ gets[2] # gets[1])
             /\ Len(gets) >= 3 => gets[3] = gets[2] \o <<"&view=functions">>
             /\ result.returned => (Len(gets) = 3 /\ answered = 3 /\ raised = NoExc)
             /\ raised # NoExc => (Len(gets) = answered /\ pc = "idle")
             /\ pc = "idle" => (result.returned \/ raised # NoExc))
  /\ [][pc # "idle"
          => /\ answered' = answered + 1
             /\ gets' = gets \/ (Len(gets') = Len(gets) + 1
                                  /\ SubSeq(gets', 1, Len(gets)) = gets)
             /\ resp'.status_code # 200 => (gets' = gets /\ raised' # NoExc)]_vars

C9_Witness ==
  /\ call.op = "run_query"
  /\ result.returned
  /\ Len(gets) = 3

\* C10: run_query returns a mapping only for a query with a non-empty feature
\* and exactly one of strain and organism set; with both None it fails before
\* any GET, with the feature None or empty it issues the search GET and fails
\* on its answer without a second GET; these queries pass the setter.
C10_NeedsFeatureAndTerm ==
  /\ (call.op = "run_query" /\ result.returned)
       => /\ FeatureOf(query) # <<>>
          /\ (query.strain # None) # (query.organism # None)
  /\ (call.op = "run_query" /\ preConnected /\ raised \notin InvalidArgument)
       => /\ (query.strain = None /\ query.organism = None)
               => (raised = UnboundUrl /\ gets = <<>> /\ pc = "idle")
          /\ (FeatureOf(query) = <<>> /\ (query.strain # None \/ query.organism # None))
               => /\ Len(gets) = 1
                  /\ answered = 1 => (raised # NoExc /\ pc = "idle")
                  /\ (answered = 1 /\ _simple_get(resp).exc = NoExc)
                       => raised = UnboundFeatureLink

C10_Witness ==
  /\ call.op = "run_query"
  /\ call.arg = Absent
  /\ query = [strain |-> StrV(sbw25), feature |-> None, organism |-> None]
  /\ Len(gets) = 1
  /\ answered = 1
  /\ raised = UnboundFeatureLink

====
